---- MODULE Spec2Model ----
(***************************************************************************)
(* Thumbnail-derivation pipeline of the multer file uploader:              *)
(* ImageProcessor.humanReadableSize, the ImageProcessor constructor,       *)
(* resizeImage, processImage (src/src/utils.ts) and the POST /upload       *)
(* handler (src/src/index.ts).                                             *)
(*                                                                         *)
(* Numbers.  A JavaScript number holding a non-negative integer is         *)
(* modelled exactly as the sequence of its base-1024 limbs, most           *)
(* significant first, without leading zero limbs (zero is << >>).  The     *)
(* running value n of humanReadableSize is a pair [int, frac]: the limbs   *)
(* of its integer part and the base-1024 limbs of its fraction.  Dividing  *)
(* a double by 1024 only changes its exponent, so the pair is the exact    *)
(* value the code holds.                                                   *)
(*                                                                         *)
(* Strings.  A JavaScript string is the sequence of its characters, each   *)
(* a one-character string: "1.5 KB" is <<"1", ".", "5", " ", "K", "B">>.    *)
(***************************************************************************)
EXTENDS Integers, Sequences, FiniteSets, TLC

VARIABLES
    bytes,      \* humanReadableSize: the argument of the call under study
    rendered,   \* humanReadableSize: its return value, NotRendered before the call
    dirs,       \* file system: the variant directories that exist
    files,      \* file system: thumbnail files, [key, filename] -> size or NoFile
    calls,      \* the processImage invocations, by call id
    requests    \* the POST /upload requests, by request id

vars == <<bytes, rendered, dirs, files, calls, requests>>

-----------------------------------------------------------------------------
(* Bounds of the model                                                     *)

\* number of zero limbs appended to the generated byte counts
MaxShift == 7

\* number of processImage invocations
MaxCalls == 2

\* number of POST /upload requests
MaxRequests == 2

-----------------------------------------------------------------------------
(* Exact arithmetic on limb sequences                                      *)

\* the divisor of the magnitude ladder, and the base of the limbs
Base == 1024

Normalize(s) ==
    IF \A i \in 1..Len(s) : s[i] = 0 THEN << >>
    ELSE LET first == CHOOSE i \in 1..Len(s) :
                          s[i] # 0 /\ \A j \in 1..(i - 1) : s[j] = 0
         IN  SubSeq(s, first, Len(s))

Zeros(k) == [i \in 1..k |-> 0]

\* the limbs of a small non-negative integer
RECURSIVE FromInt(_)
FromInt(v) == IF v = 0 THEN << >> ELSE FromInt(v \div Base) \o <<v % Base>>

\* s * m + c, for small m and c
RECURSIVE MulAdd(_, _, _)
MulAdd(s, m, c) ==
    IF s = << >> THEN FromInt(c)
    ELSE LET cur == s[Len(s)] * m + c
         IN  MulAdd(SubSeq(s, 1, Len(s) - 1), m, cur \div Base) \o <<cur % Base>>

\* <<quotient limbs (not normalized), remainder>> of (carry * Base^Len(s) + s) / d
RECURSIVE DivSmall(_, _, _)
DivSmall(s, d, carry) ==
    IF s = << >> THEN << << >>, carry >>
    ELSE LET cur  == carry * Base + Head(s)
             rest == DivSmall(Tail(s), d, cur % d)
         IN  << <<cur \div d>> \o rest[1], rest[2] >>

\* the decimal digits of x, most significant first; << >> for zero
RECURSIVE DecimalDigits(_)
DecimalDigits(x) ==
    IF x = << >> THEN << >>
    ELSE LET dm == DivSmall(x, 10, 0)
         IN  DecimalDigits(Normalize(dm[1])) \o <<dm[2]>>

\* floor(m * f) for the fraction f = 0.frac in base 1024
RECURSIVE FloorMul(_, _)
FloorMul(frac, m) ==
    IF frac = << >> THEN 0
    ELSE (m * Head(frac) + FloorMul(Tail(frac), m)) \div Base

-----------------------------------------------------------------------------
(* JavaScript conversions used by humanReadableSize                        *)

DigitChars == <<"0", "1", "2", "3", "4", "5", "6", "7", "8", "9">>

DigitChar(d) == DigitChars[d + 1]

IsDigitChar(c) == \E d \in 0..9 : DigitChars[d + 1] = c

DigitValue(c) == CHOOSE d \in 0..9 : DigitChars[d + 1] = c

DigitString(ds) == [i \in 1..Len(ds) |-> DigitChar(ds[i])]

StripTrailingZeros(ds) ==
    LET last == CHOOSE i \in 1..Len(ds) :
                    ds[i] # 0 /\ \A j \in (i + 1)..Len(ds) : ds[j] = 0
    IN  SubSeq(ds, 1, last)

\* Number.prototype.toString() of a non-negative integer x: plain digits below
\* 10^21, exponent notation d.ddde+k from 10^21 on.  (For a double above 2^53
\* the digits after the first few differ from the exact ones printed here; what
\* parseInt reads of them is the same.)
NumberToString(x) ==
    LET ds == DecimalDigits(x)
    IN  IF ds = << >> THEN <<"0">>
        ELSE IF Len(ds) <= 21 THEN DigitString(ds)
        ELSE LET sig == StripTrailingZeros(ds)
             IN  <<DigitChar(sig[1])>>
                 \o (IF Len(sig) > 1
                     THEN <<".">> \o DigitString(SubSeq(sig, 2, Len(sig)))
                     ELSE << >>)
                 \o <<"e", "+">>
                 \o DigitString(DecimalDigits(FromInt(Len(ds) - 1)))

\* parseInt(str, 10): the value of the longest prefix of decimal digits; NaN
\* when str does not start with a digit
DigitPrefixLen(str) ==
    IF \A i \in 1..Len(str) : IsDigitChar(str[i]) THEN Len(str)
    ELSE (CHOOSE i \in 1..Len(str) :
              ~IsDigitChar(str[i]) /\ \A j \in 1..(i - 1) : IsDigitChar(str[j])) - 1

RECURSIVE DigitsValue(_)
DigitsValue(str) ==
    IF str = << >> THEN << >>
    ELSE MulAdd(DigitsValue(SubSeq(str, 1, Len(str) - 1)), 10,
                DigitValue(str[Len(str)]))

parseInt(str) ==
    LET k == DigitPrefixLen(str)
    IN  IF k = 0 THEN [nan |-> TRUE, value |-> << >>]
        ELSE [nan |-> FALSE, value |-> DigitsValue(SubSeq(str, 1, k))]

\* x || 0 : NaN and 0 are falsy
OrZero(p) == IF p.nan THEN << >> ELSE p.value

\* n.toFixed(digits) for 0 <= n < 10^21: the decimal expansion of
\* floor(n * 10^digits + 1/2) (ties go to the larger value), with the point
\* before the last `digits` digits
RECURSIVE PowerOfTen(_)
PowerOfTen(digits) == IF digits = 0 THEN 1 ELSE 10 * PowerOfTen(digits - 1)

toFixed(n, digits) ==
    LET m       == PowerOfTen(digits)
        roundUp == (FloorMul(n.frac, 2 * m) + 1) \div 2
        scaled  == DecimalDigits(MulAdd(n.int, m, roundUp))
        padded  == IF Len(scaled) > digits THEN scaled
                   ELSE Zeros(digits + 1 - Len(scaled)) \o scaled
        whole   == SubSeq(padded, 1, Len(padded) - digits)
        part    == SubSeq(padded, Len(padded) - digits + 1, Len(padded))
    IN  DigitString(whole)
        \o (IF digits > 0 THEN <<".">> \o DigitString(part) ELSE << >>)

-----------------------------------------------------------------------------
(* ImageProcessor.humanReadableSize                                        *)

units == << <<"B">>, <<"K", "B">>, <<"M", "B">>, <<"G", "B">>, <<"T", "B">>,
            <<"P", "B">>, <<"E", "B">>, <<"Z", "B">>, <<"Y", "B">> >>

\* units[l], which is undefined past the end of the array
UnitAt(l) ==
    IF l + 1 <= Len(units) THEN units[l + 1]
    ELSE <<"u", "n", "d", "e", "f", "i", "n", "e", "d">>

\* n >= 1024
AtLeastBase(n) == Len(n.int) >= 2

\* n < 10
BelowTen(n) == n.int = << >> \/ (Len(n.int) = 1 /\ n.int[1] < 10)

\* n / 1024
DivideByBase(n) ==
    [int  |-> SubSeq(n.int, 1, Len(n.int) - 1),
     frac |-> <<n.int[Len(n.int)]>> \o n.frac]

\* if (n >= 1024 && ++l) { n = n / 1024; } : one division at most
LadderOnce(n, l) ==
    IF AtLeastBase(n) THEN [n |-> DivideByBase(n), l |-> l + 1]
    ELSE [n |-> n, l |-> l]

\* while (n >= 1024 && ++l) { n = n / 1024; }
RECURSIVE Ladder(_, _)
Ladder(n, l) ==
    IF AtLeastBase(n) THEN Ladder(DivideByBase(n), l + 1)
    ELSE [n |-> n, l |-> l]

\* n = parseInt(bytes.toString(), 10) || 0
ParsedBytes(b) == OrZero(parseInt(NumberToString(b)))

humanReadableSize(b) ==
    LET r == Ladder([int |-> ParsedBytes(b), frac |-> << >>], 0)
    IN  toFixed(r.n, IF BelowTen(r.n) /\ r.l > 0 THEN 1 ELSE 0)
        \o <<" ">> \o UnitAt(r.l)

-----------------------------------------------------------------------------------------------------------------------------------------------------
(* Configuration: config.filePaths and the thumbnail size table.  A path   *)
(* is the sequence of its components.                                      *)

\* path.join(dir, name)
join(dir, name) == Append(dir, name)

dirname(path) == SubSeq(path, 1, Len(path) - 1)

basename(path) == path[Len(path)]

\* the path as the text of an error message
RECURSIVE PathString(_)
PathString(path) ==
    IF Len(path) = 1 THEN path[1]
    ELSE PathString(dirname(path)) \o "/" \o basename(path)

uploadDir == <<"uploads">>

uploadDirTemp == join(uploadDir, "temp")

\* the keys of the size table `mappings`, in insertion order
Keys == <<"THUMB_50x50", "THUMB_150x150", "THUMB_250x250",
          "THUMB_500x500", "THUMB_1000x1000", "THUMB_2000x2000">>

KeySet == {Keys[i] : i \in 1..Len(Keys)}

mappings ==
    [key \in KeySet |->
        CASE key = "THUMB_50x50"     -> [width |-> 50,   height |-> 50]
          [] key = "THUMB_150x150"   -> [width |-> 150,  height |-> 150]
          [] key = "THUMB_250x250"   -> [width |-> 250,  height |-> 250]
          [] key = "THUMB_500x500"   -> [width |-> 500,  height |-> 500]
          [] key = "THUMB_1000x1000" -> [width |-> 1000, height |-> 1000]
          [] key = "THUMB_2000x2000" -> [width |-> 2000, height |-> 2000]]

\* the keys of config.filePaths, in insertion order
ConfigKeys == <<"uploadDir", "uploadDirTemp">> \o Keys

filePaths ==
    [key \in {ConfigKeys[i] : i \in 1..Len(ConfigKeys)} |->
        CASE key = "uploadDir"       -> uploadDir
          [] key = "uploadDirTemp"   -> uploadDirTemp
          [] key = "THUMB_50x50"     -> join(join(uploadDirTemp, "thumbs"), "50x50")
          [] key = "THUMB_150x150"   -> join(join(uploadDirTemp, "thumbs"), "150x150")
          [] key = "THUMB_250x250"   -> join(join(uploadDirTemp, "thumbs"), "250x250")
          [] key = "THUMB_500x500"   -> join(join(uploadDirTemp, "thumbs"), "500x500")
          [] key = "THUMB_1000x1000" -> join(join(uploadDirTemp, "thumbs"), "1000x1000")
          [] key = "THUMB_2000x2000" -> join(join(uploadDirTemp, "thumbs"), "2000x2000")]

VariantDirs == {filePaths[key] : key \in KeySet}

ConfigDirs == {filePaths[ConfigKeys[i]] : i \in 1..Len(ConfigKeys)}

-----------------------------------------------------------------------------
(* The environment: persisted images and what the codec writes             *)

\* the file names multer has stored uploads under
Names == {"a.png", "b.png"}

\* file.path of the upload stored under file.filename
TempPath(name) == join(uploadDirTemp, name)

ImagePaths == {TempPath(name) : name \in Names}

\* the content of the image persisted at TempPath(name)
Original(name) == [image |-> name, width |-> 0, height |-> 0]

\* the content sharp(input).resize(width, height) produces
Resized(content, width, height) ==
    [image |-> content.image, width |-> width, height |-> height]

\* the byte length of a file, a function of its content
ByteLength(content) ==
    LET seed == IF content.image = "a.png" THEN 1 ELSE 2
    IN  IF content.width = 0
        THEN FromInt(548575 + 500000 * seed)
        ELSE FromInt(content.width * (20 + seed) + seed)

-----------------------------------------------------------------------------
(* File system                                                             *)

existsSync(fs, path) == path \in DOMAIN fs

\* fs.statSync(path).size; the call throws when nothing is at path
statSize(fs, path) == ByteLength(fs[path])

\* toFile that keeps an existing file and writes beside it
writeFileNoClobber(fs, path, content) ==
    LET target == IF path \in DOMAIN fs
                  THEN join(dirname(path), basename(path) \o ".1")
                  ELSE path
    IN  [q \in DOMAIN fs \cup {target} |-> IF q = target THEN content ELSE fs[q]]

\* toFile(path): the file at path is created or replaced
writeFile(fs, path, content) ==
    [q \in DOMAIN fs \cup {path} |-> IF q = path THEN content ELSE fs[q]]

\* the names of the files in directory dir
readdir(fs, dir) == {basename(p) : p \in {q \in DOMAIN fs : dirname(q) = dir}}

\* the directories existing when the process starts: the first i entries of
\* config.filePaths (a directory never exists without its parents)
InitialDirs == {{filePaths[ConfigKeys[j]] : j \in 1..i} : i \in 0..Len(ConfigKeys)}

\* every content a file can have
Contents ==
    {Original(name) : name \in Names}
    \cup {Resized(Original(name), mappings[key].width, mappings[key].height) :
             name \in Names, key \in KeySet}

\* ImageProcessor.humanReadableSize, tabulated over the sizes statSync can report
RenderedSize ==
    [size \in {ByteLength(content) : content \in Contents} |-> humanReadableSize(size)]

-----------------------------------------------------------------------------
(* ImageProcessor                                                          *)

\* a constructor that provisions the upload directories only
ConstructUploadDirs(ds) == ds \cup {uploadDir, uploadDirTemp}

\* constructor: for (key in config.filePaths)
\*                if (!existsSync(filePaths[key])) mkdirSync(filePaths[key])
Construct(ds) == ds \cup {d \in ConfigDirs : d \notin ds}

\* an output path that does not depend on the file name
outputPathFixedName(key, originalFilename) == join(filePaths[key], "thumb.png")

\* const outputPath = path.join(this.filePaths[key], originalFilename)
outputPath(key, originalFilename) == join(filePaths[key], originalFilename)

\* a loop that starts the resizes of all remaining keys at once
LoopAwaitsAll(i) == {Keys[j] : j \in i..Len(Keys)}

\* the resizes the loop has in flight once it reaches the i-th key and awaits
LoopAwaits(i) == {Keys[i]}

CallIds == 1..MaxCalls

RequestIds == 1..MaxRequests

\* the function with the empty domain: an object without properties
Empty == [x \in {} |-> x]

IdleCall ==
    [pc |-> "idle", imagePath |-> << >>, originalFilename |-> "",
     i |-> 0, inflight |-> {}, resized |-> Empty, result |-> Empty,
     error |-> ""]

\* the state of a call when processImage(imagePath, originalFilename) reaches
\* its first await
BeginCall(imagePath, originalFilename) ==
    [pc |-> "awaiting", imagePath |-> imagePath,
     originalFilename |-> originalFilename,
     i |-> 1, inflight |-> LoopAwaits(1), resized |-> Empty, result |-> Empty,
     error |-> ""]

\* the outcomes of the resizes of a call so far, with that for key added
Put(obj, key, value) ==
    [k \in DOMAIN obj \cup {key} |-> IF k = key THEN value ELSE obj[k]]

\* result = { [key]: entry }
RecordOverwrites(result, key, entry) == [k \in {key} |-> entry]

\* result[key] = entry
Record(result, key, entry) ==
    [k \in DOMAIN result \cup {key} |-> IF k = key THEN entry ELSE result[k]]

NoContent == [image |-> "", width |-> 0, height |-> 0]

\* resizeImage: await sharp(inputPath).resize(width, height).toFile(outputPath)
\* inside try/catch.  The outcomes of one resize: the file system it leaves and
\* whether toFile resolved; a rejection is logged and swallowed, the file system
\* as it was.
resizeImage(fs, ds, inputPath, outPath, dir, width, height) ==
    { [fs |-> fs, ok |-> FALSE, content |-> NoContent] }
    \cup
    IF existsSync(fs, inputPath) /\ dir \in ds
    THEN { [fs      |-> writeFile(fs, outPath, Resized(fs[inputPath], width, height)),
            ok      |-> TRUE,
            content |-> Resized(fs[inputPath], width, height)] }
    ELSE {}

\* the message of the error statSync throws for a missing path
NoEntry(path) ==
    "ENOENT: no such file or directory, stat '" \o PathString(path) \o "'"

\* the body of the for loop after the await, for the key at index call.i: both
\* statSync calls, the two renderings, the assignment to result[key], and the
\* next iteration up to its await, or the return
AfterResize(call, fs) ==
    LET key     == Keys[call.i]
        outPath == outputPath(key, call.originalFilename)
    IN  IF ~existsSync(fs, call.imagePath)
        THEN [call EXCEPT !.pc = "rejected", !.error = NoEntry(call.imagePath)]
        ELSE IF ~existsSync(fs, outPath)
        THEN [call EXCEPT !.pc = "rejected", !.error = NoEntry(outPath)]
        ELSE LET entry == [path         |-> outPath,
                           size         |-> RenderedSize[statSize(fs, outPath)],
                           originalSize |-> RenderedSize[statSize(fs, call.imagePath)]]
                 next  == [call EXCEPT !.result = Record(@, key, entry)]
             IN  IF call.i < Len(Keys)
                 THEN [next EXCEPT !.i = call.i + 1,
                                   !.inflight = LoopAwaits(call.i + 1)]
                 ELSE [next EXCEPT !.pc = "returned"]

\* the value a returned call resolves to
Manifest(call) == [original |-> call.imagePath, thumbnails |-> call.result]

-----------------------------------------------------------------------------
(* POST /upload handler                                                    *)

NoRequest ==
    [state |-> "none", hasFiles |-> FALSE, files |-> << >>, callIds |-> << >>,
     responses |-> << >>]

\* one element of fileDetails
Details(file, call) ==
    [fileName   |-> file.filename,
     path       |-> file.path,
     original   |-> Manifest(call).original,
     thumbnails |-> Manifest(call).thumbnails]

\* a handler that answers 200 as soon as one call has returned
SettleEarly(req, cs) ==
    IF req.state # "awaiting" THEN req
    ELSE IF \E j \in 1..Len(req.callIds) : cs[req.callIds[j]].pc = "returned"
    THEN [req EXCEPT !.state = "done",
                     !.responses = Append(@,
                         [status |-> 200,
                          body   |-> [j \in 1..Len(req.files) |->
                                         Details(req.files[j], cs[req.callIds[j]])]])]
    ELSE req

\* await Promise.all(fileDetailsPromises), then res.send(fileDetails), or the
\* catch block: what the handler of req has sent once the calls are as in cs
Settle(req, cs) ==
    IF req.state # "awaiting" THEN req
    ELSE IF \E j \in 1..Len(req.callIds) : cs[req.callIds[j]].pc = "rejected"
    THEN LET j == CHOOSE j \in 1..Len(req.callIds) :
                      cs[req.callIds[j]].pc = "rejected"
         IN  [req EXCEPT !.state = "done",
                         !.responses = Append(@, [status |-> 500,
                                                  body   |-> cs[req.callIds[j]].error])]
    ELSE IF \A j \in 1..Len(req.callIds) : cs[req.callIds[j]].pc = "returned"
    THEN [req EXCEPT !.state = "done",
                     !.responses = Append(@,
                         [status |-> 200,
                          body   |-> [j \in 1..Len(req.files) |->
                                         Details(req.files[j], cs[req.callIds[j]])]])]
    ELSE req

\* the requests after the microtasks following a change of the calls have run
SettleAll(reqs, cs) == [r \in DOMAIN reqs |-> Settle(reqs[r], cs)]

-----------------------------------------------------------------------------
(* State machine                                                           *)

UsedCalls == {c \in CallIds : calls[c].pc # "idle"}

NextCallId == Cardinality(UsedCalls) + 1

\* file names multer has handed out to earlier requests (v4() repeats none)
TakenNames ==
    UNION { {requests[r].files[j].filename : j \in 1..Len(requests[r].files)} :
            r \in RequestIds }

\* the arrays req.files can be: up to k distinct fresh uploads
FileArrays(k) ==
    LET fresh == Names \ TakenNames
    IN  UNION { {s \in [1..n -> fresh] : \A a, b \in 1..n : a # b => s[a] # s[b]} :
                n \in 0..k }

InitialFiles ==
    [p \in ImagePaths |-> Original(CHOOSE name \in Names : TempPath(name) = p)]

Init ==
    /\ bytes = << >>
    /\ rendered = << >>
    /\ dirs \in InitialDirs
    /\ files = InitialFiles
    /\ calls = [c \in CallIds |-> IdleCall]
    /\ requests = [r \in RequestIds |-> NoRequest]

\* a caller constructs an ImageProcessor and calls processImage, once its
\* earlier calls have settled
Invoke(imagePath, originalFilename) ==
    /\ NextCallId \in CallIds
    /\ \A c \in UsedCalls : calls[c].pc \in {"returned", "rejected"}
    /\ dirs' = Construct(dirs)
    /\ calls' = [calls EXCEPT ![NextCallId] = BeginCall(imagePath, originalFilename)]
    /\ UNCHANGED <<bytes, rendered, files, requests>>

\* POST /upload without req.files
UploadNothing(r) ==
    /\ requests[r].state = "none"
    /\ requests' = [requests EXCEPT ![r] =
           [@ EXCEPT !.state = "done",
                     !.responses = Append(@, [status |-> 400,
                                              body   |-> "No files were uploaded."])]]
    /\ UNCHANGED <<bytes, rendered, dirs, files, calls>>

\* POST /upload with req.files = names: files.map starts one processImage per
\* file, each on its own ImageProcessor, then the handler awaits Promise.all
Upload(r, names) ==
    /\ requests[r].state = "none"
    /\ LET n     == Len(names)
           first == NextCallId
           fs    == [j \in 1..n |-> [filename |-> names[j], path |-> TempPath(names[j])]]
           ids   == [j \in 1..n |-> first + j - 1]
           cs    == [c \in CallIds |->
                        IF c \in first..(first + n - 1)
                        THEN BeginCall(fs[c - first + 1].path,
                                       fs[c - first + 1].filename)
                        ELSE calls[c]]
           req   == [state |-> "awaiting", hasFiles |-> TRUE, files |-> fs,
                     callIds |-> ids, responses |-> << >>]
       IN  /\ calls' = cs
           /\ dirs' = IF n > 0 THEN Construct(dirs) ELSE dirs
           /\ requests' = [requests EXCEPT ![r] = Settle(req, cs)]
    /\ UNCHANGED <<bytes, rendered, files>>

\* the codec finishes the resize for key that call c has in flight
SharpSettles(c, key) ==
    /\ calls[c].pc = "awaiting"
    /\ key \in calls[c].inflight
    /\ \E out \in resizeImage(files, dirs, calls[c].imagePath,
                              outputPath(key, calls[c].originalFilename),
                              filePaths[key],
                              mappings[key].width, mappings[key].height) :
          /\ files' = out.fs
          /\ calls' = [calls EXCEPT
                 ![c].inflight = @ \ {key},
                 ![c].resized  = Put(@, key, [ok |-> out.ok, content |-> out.content])]
    /\ UNCHANGED <<bytes, rendered, dirs, requests>>

\* call c resumes after its await
Resume(c) ==
    /\ calls[c].pc = "awaiting"
    /\ calls[c].inflight = {}
    /\ calls' = [calls EXCEPT ![c] = AfterResize(calls[c], files)]
    /\ requests' = SettleAll(requests, calls')
    /\ UNCHANGED <<bytes, rendered, dirs, files>>

CodecStep == \E c \in CallIds, key \in KeySet : SharpSettles(c, key)

CallStep == \E c \in CallIds : Resume(c)

\* the server: requests arrive, the codec and the calls make their steps
Next ==
    \/ \E r \in RequestIds : UploadNothing(r)
    \/ \E r \in RequestIds :
          \E names \in FileArrays(MaxCalls - Cardinality(UsedCalls)) : Upload(r, names)
    \/ CodecStep
    \/ CallStep

Spec == Init /\ [][Next]_vars

\* the codec finishes every resize it was given, and the event loop runs every
\* continuation that is ready
FairSpec == Spec /\ WF_vars(CodecStep) /\ WF_vars(CallStep)

\* a caller of the class: one processImage call after the other
ApiNext ==
    \/ \E p \in ImagePaths, name \in Names : Invoke(p, name)
    \/ CodecStep
    \/ CallStep

ApiSpec == Init /\ [][ApiNext]_vars

-----------------------------------------------------------------------------
(* humanReadableSize on its own: one call on a byte count                 *)

TopLimbs == {0, 1, 9, 10, 867, 1023}

NextLimbs == {0, 51, 370, 371, 476, 511, 512, 972, 973, 1023}

\* the byte counts tried: two leading limbs, or three around the values where
\* the last limb decides the rounding, followed by up to MaxShift zero limbs
Inputs ==
    { Normalize(<<a, b>> \o Zeros(z)) :
          a \in TopLimbs, b \in NextLimbs, z \in 0..MaxShift }
    \cup
    { <<a, b, c>> \o Zeros(z) :
          a \in {1, 9}, b \in {51, 972}, c \in {204, 205, 819, 820}, z \in 0..MaxShift }

FormatInit ==
    /\ bytes \in Inputs
    /\ rendered = << >>
    /\ dirs = {}
    /\ files = InitialFiles
    /\ calls = [c \in CallIds |-> IdleCall]
    /\ requests = [r \in RequestIds |-> NoRequest]

Render ==
    /\ rendered = << >>
    /\ rendered' = humanReadableSize(bytes)
    /\ UNCHANGED <<bytes, dirs, files, calls, requests>>

FormatNext == Render

FormatSpec == FormatInit /\ [][FormatNext]_vars

-----------------------------------------------------------------------------
(* Claims                                                                  *)

Settled(call) == call.pc \in {"returned", "rejected"}

AllResized(call) ==
    /\ DOMAIN call.resized = KeySet
    /\ \A key \in KeySet : call.resized[key].ok

SomeResizeFailed(call) == \E key \in DOMAIN call.resized : ~call.resized[key].ok

\* C1: a call all six of whose resizes succeeded returns a manifest whose
\* original is imagePath and whose thumbnails has exactly the six keys of the
\* size table, each entry at the output path of its key.
C1_ManifestHasSixEntries ==
    \A c \in CallIds :
        Settled(calls[c]) /\ AllResized(calls[c]) =>
            /\ calls[c].pc = "returned"
            /\ Manifest(calls[c]).original = calls[c].imagePath
            /\ DOMAIN Manifest(calls[c]).thumbnails = KeySet
            /\ \A key \in KeySet :
                   Manifest(calls[c]).thumbnails[key].path
                       = outputPath(key, calls[c].originalFilename)

C1_Witness ==
    \E c \in CallIds :
        /\ calls[c].pc = "returned"
        /\ AllResized(calls[c])
        /\ calls[c].imagePath # TempPath(calls[c].originalFilename)

\* C2: a call one of whose resizes failed does not reject; once it has
\* settled, all six variants were attempted and recorded.
C2_ResizeFailureIsolated ==
    \A c \in CallIds :
        SomeResizeFailed(calls[c]) =>
            /\ calls[c].pc # "rejected"
            /\ Settled(calls[c]) =>
                   DOMAIN calls[c].resized = KeySet /\ DOMAIN calls[c].result = KeySet

\* C3: every thumbnail entry of a returned manifest has the rendering of the
\* byte length of the file the call's own resize wrote at the entry's path.
C3_SizeIsOfOwnWrite ==
    \A c \in CallIds :
        calls[c].pc = "returned" =>
            \A key \in DOMAIN calls[c].result :
                /\ calls[c].resized[key].ok
                /\ calls[c].result[key].size
                       = humanReadableSize(ByteLength(calls[c].resized[key].content))

SamePaths(first, second) ==
    \A key \in DOMAIN first.result \cap DOMAIN second.result :
        first.result[key].path = second.result[key].path

RECURSIVE SpecifiedLadder(_, _)
SpecifiedLadder(n, l) ==
    IF AtLeastBase(n) /\ l + 1 < Len(units)
    THEN SpecifiedLadder(DivideByBase(n), l + 1)
    ELSE [n |-> n, l |-> l]

SpecifiedSize(b) ==
    LET r == SpecifiedLadder([int |-> b, frac |-> << >>], 0)
    IN  toFixed(r.n, IF r.l = 0 \/ ~BelowTen(r.n) THEN 0 ELSE 1)
        \o <<" ">> \o units[r.l + 1]

\* C5: for every non-negative integer byte count humanReadableSize returns the
\* string of the specified algorithm.
C5_ReturnsSpecifiedString ==
    rendered # << >> => rendered = SpecifiedSize(bytes)

\* the examples of C5
C5_Examples ==
    /\ humanReadableSize(FromInt(0)) = <<"0", " ", "B">>
    /\ humanReadableSize(FromInt(1023)) = <<"1", "0", "2", "3", " ", "B">>
    /\ humanReadableSize(FromInt(1500)) = <<"1", ".", "5", " ", "K", "B">>
    /\ humanReadableSize(FromInt(10485760)) = <<"1", "0", " ", "M", "B">>

\* below 10^21, where toString prints plain digits, the code and the specified
\* algorithm agree
C5_AgreesBelowExponentNotation ==
    rendered # << >> /\ Len(DecimalDigits(bytes)) <= 21 =>
        rendered = SpecifiedSize(bytes)

OwnPaths(call) ==
    {call.imagePath} \cup {outputPath(key, call.originalFilename) : key \in KeySet}

\* the files a call leaves when it runs alone on the initial file system, its
\* resizes ending as recorded
AloneFiles(call) ==
    LET written == {key \in DOMAIN call.resized : call.resized[key].ok}
        keyOf(p) == CHOOSE key \in written :
                        outputPath(key, call.originalFilename) = p
    IN  [p \in ImagePaths \cup {outputPath(key, call.originalFilename) : key \in written}
            |-> IF p \in ImagePaths THEN InitialFiles[p]
                ELSE Resized(InitialFiles[call.imagePath],
                             mappings[keyOf(p)].width, mappings[keyOf(p)].height)]

Distinct(c) ==
    \A d \in UsedCalls \ {c} :
        /\ calls[d].imagePath # calls[c].imagePath
        /\ calls[d].originalFilename # calls[c].originalFilename

C6_OwnFiles ==
    \A c \in UsedCalls :
        Distinct(c) =>
            \A p \in OwnPaths(calls[c]) :
                /\ p \in DOMAIN files <=> p \in DOMAIN AloneFiles(calls[c])
                /\ p \in DOMAIN files => files[p] = AloneFiles(calls[c])[p]

C6_OwnSteps ==
    \A c \in UsedCalls :
        Distinct(c) /\ calls'[c] # calls[c] /\ calls[c].inflight = {} =>
            calls'[c] = AfterResize(calls[c], AloneFiles(calls[c]))

\* C6: while calls for different images run concurrently, the files at a
\* call's own paths are those it leaves when run alone, and each of its steps
\* yields what it yields when run alone.
C6_CallsAreIsolated == []C6_OwnFiles /\ [][C6_OwnSteps]_vars

C6_Witness ==
    \E c, d \in CallIds :
        /\ c # d
        /\ Distinct(c)
        /\ calls[c].pc = "awaiting"
        /\ calls[c].i > 2
        /\ calls[d].pc = "awaiting"
        /\ calls[d].i > 2

\* C7: a call has at most one resize in flight, that of the key the loop is
\* at; the entries of all preceding keys are recorded and no later resize has
\* started.
C7_OneResizeAtATime ==
    \A c \in CallIds :
        calls[c].pc = "awaiting" =>
            /\ Cardinality(calls[c].inflight) <= 1
            /\ calls[c].inflight \subseteq {Keys[calls[c].i]}
            /\ DOMAIN calls[c].result = {Keys[j] : j \in 1..(calls[c].i - 1)}
            /\ DOMAIN calls[c].resized \cup calls[c].inflight
                   = {Keys[j] : j \in 1..calls[c].i}

C7_Witness ==
    \E c \in CallIds :
        /\ calls[c].pc = "awaiting"
        /\ calls[c].i = 3
        /\ calls[c].inflight = {Keys[3]}

C8_DirectoriesExist ==
    \A c \in UsedCalls : VariantDirs \subseteq dirs

C8_ExistingUntouched ==
    /\ dirs \subseteq dirs'
    /\ dirs' # dirs => dirs' = dirs \cup ConfigDirs /\ files' = files

\* C8: whenever a call has started, the six variant directories exist;
\* construction adds the missing configured directories and changes nothing
\* else.
C8_ProvisioningPrecedesUse == []C8_DirectoriesExist /\ [][C8_ExistingUntouched]_vars

C8_Witness ==
    \E c \in CallIds :
        /\ calls[c].pc = "awaiting"
        /\ calls[c].i = 1
        /\ calls[c].inflight = {Keys[1]}
        /\ VariantDirs \subseteq dirs

CallsOf(req) == {req.callIds[j] : j \in 1..Len(req.callIds)}

C9_Safety ==
    \A r \in RequestIds :
        LET req == requests[r]
        IN  /\ Len(req.responses) <= 1
            /\ req.state = "done" <=> Len(req.responses) = 1
            /\ req.state = "awaiting" =>
                   /\ \A c \in CallsOf(req) : calls[c].pc # "rejected"
                   /\ \E c \in CallsOf(req) : calls[c].pc = "awaiting"
            /\ Len(req.responses) = 1 =>
                   LET res == req.responses[1]
                   IN  /\ res.status \in {200, 400, 500}
                       /\ res.status = 400 <=> ~req.hasFiles
                       /\ res.status = 200 =>
                              /\ \A c \in CallsOf(req) : calls[c].pc = "returned"
                              /\ Len(res.body) = Len(req.files)
                              /\ \A j \in 1..Len(req.files) :
                                     /\ res.body[j].fileName = req.files[j].filename
                                     /\ res.body[j].path = req.files[j].path
                                     /\ res.body[j].original = req.files[j].path
                                     /\ res.body[j].thumbnails
                                            = calls[req.callIds[j]].result
                       /\ res.status = 500 =>
                              \E c \in CallsOf(req) :
                                  /\ calls[c].pc = "rejected"
                                  /\ res.body = calls[c].error

C9_Answered ==
    \A r \in RequestIds :
        (requests[r].state = "awaiting") ~> (Len(requests[r].responses) = 1)

\* C9: a request is answered exactly once: 400 without req.files, 200 once
\* every call has returned, with one record per file in order, 500 with the
\* message of a rejected call.
C9_AnsweredExactlyOnce == []C9_Safety /\ C9_Answered

C9_Witness ==
    \E r, q \in RequestIds :
        /\ Len(requests[r].responses) = 1
        /\ requests[r].responses[1].status = 200
        /\ Len(requests[r].files) = 2
        /\ Len(requests[q].responses) = 1
        /\ requests[q].responses[1].status = 400

\* the number shown, up to the point
ShownInteger(str) == parseInt(str).value

HasPoint(str) == \E i \in 1..Len(str) : str[i] = "."

\* bytes < 1024^9
BelowLadderEnd(b) == Len(b) <= Len(units)

\* C10 as stated: below 1024^9 the number shown is less than 1024.
C10_ShownBelow1024 ==
    rendered # << >> /\ BelowLadderEnd(bytes) => Len(ShownInteger(rendered)) <= 1

\* C10 amended: below 1024^9 the number shown is at most 1024, and reads 1024
\* only without decimals.
C10_ShownAtMost1024 ==
    rendered # << >> /\ BelowLadderEnd(bytes) =>
        \/ Len(ShownInteger(rendered)) <= 1
        \/ ShownInteger(rendered) = <<1, 0>> /\ ~HasPoint(rendered)

C10_Witness == rendered = <<"1", "0", "2", "4", " ", "K", "B">>

====
